---- MODULE Spec2Model ----
(***************************************************************************)
(* The resource-state algebra of gfx-chain (src/resource/mod.rs):          *)
(* State<R> = <access, layout, stages> with merge, exclusive, compatible,  *)
(* for the two resource kinds Buffer and Image.                            *)
(*                                                                         *)
(* Flag sets (hal bitflags) are modelled as sets of flag names; `|` on a   *)
(* bitflags value is set union.  Option<Layout> is a layout or NoLayout,   *)
(* and the outcome of a call that may panic is Returned(s) or Panic.       *)
(***************************************************************************)
EXTENDS Integers, Sequences, FiniteSets, Bags

VARIABLES
    kind,       \* the resource kind R the states are parametrised by
    lhs,        \* one state of that kind
    rhs,        \* another state of that kind
    merged,     \* outcome of merge: "fwd" is lhs.merge(rhs), "rev" is rhs.merge(lhs)
    compat,     \* answer of compatible, "fwd" and "rev" likewise
    excl,       \* answer of exclusive, of "lhs" and of "rhs"
    pending,    \* the bag of states a caller has folded so far
    acc         \* the outcome of that fold, in the order the states arrived

vars == <<kind, lhs, rhs, merged, compat, excl, pending, acc>>

\* How many states (counted with repetition) a caller folds with State::merge.
MaxPending == 3

-----------------------------------------------------------------------------
(* The resource kinds and the HAL types they bind.                         *)

Kinds == {"Buffer", "Image"}

\* hal::buffer::Access (a sample of its flags: two read categories, one write).
BufferAccessFlags == {"VERTEX_BUFFER_READ", "TRANSFER_READ", "TRANSFER_WRITE"}

\* hal::image::Access (a sample of its flags: one read category, one write).
ImageAccessFlags == {"SHADER_READ", "SHADER_WRITE"}

AccessFlags(k) == IF k = "Buffer" THEN BufferAccessFlags ELSE ImageAccessFlags

\* The write-category flags of an access type.
WriteFlags(k) == IF k = "Buffer" THEN {"TRANSFER_WRITE"} ELSE {"SHADER_WRITE"}

\* buffer::BufferLayout, the synthetic single-valued layout of buffers.
BufferLayouts == {"BufferLayout"}

\* hal::image::ImageLayout (a sample: the sentinel and two real layouts).
ImageLayouts == {"Undefined", "General", "ShaderReadOnlyOptimal"}

Layouts(k) == IF k = "Buffer" THEN BufferLayouts ELSE ImageLayouts

\* hal::pso::PipelineStage (a sample of its flags).
PipelineStage == {"VERTEX_SHADER", "FRAGMENT_SHADER"}

\* Option::None of Layout::merge.
NoLayout == "None"

\* Access::is_write: true iff any write-category bit is set.
is_write(k, access) == access \cap WriteFlags(k) # {}

\* Layout::merge.  Buffers: the sole value.  Images: equal layouts merge to
\* themselves, the undefined sentinel merges to the other operand, every
\* other pair does not merge.
Layout_merge(k, a, b) ==
    IF k = "Buffer" THEN a
    ELSE IF a = b THEN a
    ELSE IF a = "Undefined" THEN b
    ELSE IF b = "Undefined" THEN a
    ELSE NoLayout

\* struct State<R> { access, layout, stages }
States(k) ==
    [access : SUBSET AccessFlags(k),
     layout : Layouts(k),
     stages : SUBSET PipelineStage]

-----------------------------------------------------------------------------
(* impl State<R>                                                            *)

\* A call that unwinds (Option::unwrap on None) produces no value.
Panic == [tag |-> "panic"]
Returned(s) == [tag |-> "ok", state |-> s]
Answer(b) == [tag |-> "bool", value |-> b]
NoCall == [tag |-> "none"]

\* Variants of State::merge a slip in lines 72-76 would produce.
\* stages: self.stages  (the union with rhs.stages forgotten)
State_merge_self_stages(k, self, other) ==
    LET layout == Layout_merge(k, self.layout, other.layout) IN
    IF layout = NoLayout
    THEN Panic
    ELSE Returned([access |-> self.access \cup other.access,
                   layout |-> layout,
                   stages |-> self.stages])

\* access: rhs.access  (self.access dropped)
State_merge_rhs_access(k, self, other) ==
    LET layout == Layout_merge(k, self.layout, other.layout) IN
    IF layout = NoLayout
    THEN Panic
    ELSE Returned([access |-> other.access,
                   layout |-> layout,
                   stages |-> self.stages \cup other.stages])

\* access: self.access ^ rhs.access  (xor for or)
State_merge_xor_access(k, self, other) ==
    LET layout == Layout_merge(k, self.layout, other.layout) IN
    IF layout = NoLayout
    THEN Panic
    ELSE Returned([access |-> (self.access \ other.access)
                                \cup (other.access \ self.access),
                   layout |-> layout,
                   stages |-> self.stages \cup other.stages])

\* layout: self.layout  (the layouts never merged, so never a panic)
State_merge_self_layout(k, self, other) ==
    Returned([access |-> self.access \cup other.access,
              layout |-> self.layout,
              stages |-> self.stages \cup other.stages])

\* an added assertion that neither state is a write
State_merge_unless_write(k, self, other) ==
    LET layout == Layout_merge(k, self.layout, other.layout) IN
    IF layout = NoLayout \/ is_write(k, self.access) \/ is_write(k, other.access)
    THEN Panic
    ELSE Returned([access |-> self.access \cup other.access,
                   layout |-> layout,
                   stages |-> self.stages \cup other.stages])

\* State::merge.  The three fields are evaluated in order; unwrap() panics
\* when the layouts do not merge.
State_merge(k, self, other) ==
    LET layout == Layout_merge(k, self.layout, other.layout) IN
    IF layout = NoLayout
    THEN Panic
    ELSE Returned([access |-> self.access \cup other.access,
                   layout |-> layout,
                   stages |-> self.stages \cup other.stages])

\* State::exclusive.
State_exclusive(k, self) == is_write(k, self.access)

\* Variants of State::compatible a slip in line 87 would produce.
\* the layout test forgotten
State_compatible_no_layout(k, self, other) ==
    /\ ~is_write(k, self.access)
    /\ ~is_write(k, other.access)

\* !rhs.exclusive() forgotten
State_compatible_self_only(k, self, other) ==
    /\ ~is_write(k, self.access)
    /\ Layout_merge(k, self.layout, other.layout) # NoLayout

\* self.layout == rhs.layout for self.layout.merge(rhs.layout).is_some()
State_compatible_equal_layout(k, self, other) ==
    /\ ~is_write(k, self.access)
    /\ ~is_write(k, other.access)
    /\ self.layout = other.layout

\* State::compatible.
State_compatible(k, self, other) ==
    /\ ~State_exclusive(k, self)
    /\ ~State_exclusive(k, other)
    /\ Layout_merge(k, self.layout, other.layout) # NoLayout

-----------------------------------------------------------------------------------------------------------------------------------------------------
(* Spec: a pair of states of one kind, and the three methods applied to it *)
(* in both argument orders.  Each call records what it produced.           *)

Dirs == {"fwd", "rev"}
Operands == {"lhs", "rhs"}

\* The receiver and the argument of a call in direction d.
Self(d) == IF d = "fwd" THEN lhs ELSE rhs
Other(d) == IF d = "fwd" THEN rhs ELSE lhs

Init ==
    /\ kind \in Kinds
    /\ lhs \in States(kind)
    /\ rhs \in States(kind)
    /\ merged = [d \in Dirs |-> NoCall]
    /\ compat = [d \in Dirs |-> NoCall]
    /\ excl = [o \in Operands |-> NoCall]
    /\ pending = EmptyBag
    /\ acc = NoCall

Merge ==
    /\ \E d \in Dirs :
        merged' = [merged EXCEPT ![d] = State_merge(kind, Self(d), Other(d))]
    /\ UNCHANGED <<kind, lhs, rhs, compat, excl, pending, acc>>

Exclusive ==
    /\ \E o \in Operands :
        excl' = [excl EXCEPT ![o] =
                    Answer(State_exclusive(kind, IF o = "lhs" THEN lhs ELSE rhs))]
    /\ UNCHANGED <<kind, lhs, rhs, merged, compat, pending, acc>>

Compatible ==
    /\ \E d \in Dirs :
        compat' = [compat EXCEPT ![d] =
                    Answer(State_compatible(kind, Self(d), Other(d)))]
    /\ UNCHANGED <<kind, lhs, rhs, merged, excl, pending, acc>>

Next == Merge \/ Exclusive \/ Compatible

Spec == Init /\ [][Next]_vars

-----
(* SpecFold: a caller folds pending states of one kind with State::merge,  *)
(* one state at a time, in whatever order they arrive.  `pending` is the   *)
(* bag of the states folded so far, `acc` the outcome so far.  Once a      *)
(* merge has panicked the fold has aborted, whatever else was to come.     *)

\* The all-zero state of a kind (no access, no stages).
ZeroState(k) ==
    [access |-> {},
     layout |-> IF k = "Buffer" THEN "BufferLayout" ELSE "Undefined",
     stages |-> {}]

InitFold ==
    /\ kind \in Kinds
    /\ lhs = ZeroState(kind)
    /\ rhs = ZeroState(kind)
    /\ merged = [d \in Dirs |-> NoCall]
    /\ compat = [d \in Dirs |-> NoCall]
    /\ excl = [o \in Operands |-> NoCall]
    /\ pending = EmptyBag
    /\ acc = NoCall

\* The first state of a fold is its initial accumulator.
FoldFirst ==
    /\ pending = EmptyBag
    /\ \E s \in States(kind) :
        /\ pending' = SetToBag({s})
        /\ acc' = Returned(s)
    /\ UNCHANGED <<kind, lhs, rhs, merged, compat, excl>>

\* Every further state is merged into the accumulator.
FoldStep ==
    /\ pending # EmptyBag
    /\ BagCardinality(pending) < MaxPending
    /\ \E s \in States(kind) :
        /\ pending' = pending (+) SetToBag({s})
        /\ acc' = IF acc = Panic THEN Panic
                  ELSE State_merge(kind, acc.state, s)
    /\ UNCHANGED <<kind, lhs, rhs, merged, compat, excl>>

NextFold == FoldFirst \/ FoldStep

SpecFold == InitFold /\ [][NextFold]_vars

\* The left fold of a non-empty sequence of states, as FoldFirst and FoldStep
\* compute it.
RECURSIVE FoldFrom(_, _, _, _)
FoldFrom(k, out, seq, i) ==
    IF i > Len(seq) THEN out
    ELSE IF out = Panic THEN Panic
    ELSE FoldFrom(k, State_merge(k, out.state, seq[i]), seq, i + 1)

FoldLeft(k, seq) == FoldFrom(k, Returned(seq[1]), seq, 2)

\* Every order in which the states of a bag can arrive.
RECURSIVE Orderings(_)
Orderings(bag) ==
    IF bag = EmptyBag THEN {<<>>}
    ELSE UNION {{<<e>> \o rest : rest \in Orderings(bag (-) SetToBag({e}))} :
                    e \in BagToSet(bag)}

-----------------------------------------------------------------------------
(* Properties of Spec (a pair of states).                                  *)

\* Whether a recorded call has been made.
Called(r) == r # NoCall

\* C1: compatible(s1, s2) is true iff s1.access is not a write, s2.access is
\* not a write and Layout::merge(s1.layout, s2.layout) is defined; when it is
\* true, exclusive() is false of both states.
C1_CompatibleIffReadersAndLayoutsMerge ==
    \A d \in Dirs :
        Called(compat[d]) =>
            /\ compat[d].value =
                (/\ ~is_write(kind, Self(d).access)
                 /\ ~is_write(kind, Other(d).access)
                 /\ Layout_merge(kind, Self(d).layout, Other(d).layout) # NoLayout)
            /\ compat[d].value =>
                \A o \in Operands : excl[o] \in {NoCall, Answer(FALSE)}

\* Two readers with different image layouts found compatible, neither exclusive.
C1_Witness ==
    /\ kind = "Image"
    /\ lhs.layout # rhs.layout
    /\ compat["fwd"] = Answer(TRUE)
    /\ excl["lhs"] = Answer(FALSE)
    /\ excl["rhs"] = Answer(FALSE)

\* C2: whenever the layouts merge, merge(s1, s2) returns the state with the
\* union of the accesses, the merged layout and the union of the stage masks,
\* also when one state is a read and the other a write.
C2_MergeIsUnionOfAccessAndStages ==
    \A d \in Dirs :
        (/\ Called(merged[d])
         /\ Layout_merge(kind, Self(d).layout, Other(d).layout) # NoLayout)
        => merged[d] =
            Returned([access |-> Self(d).access \cup Other(d).access,
                      layout |-> Layout_merge(kind, Self(d).layout, Other(d).layout),
                      stages |-> Self(d).stages \cup Other(d).stages])

\* A read and a write with different stage masks merged: both stages are kept.
C2_Witness ==
    /\ ~is_write(kind, lhs.access)
    /\ lhs.access # {}
    /\ is_write(kind, rhs.access)
    /\ lhs.stages = {"FRAGMENT_SHADER"}
    /\ rhs.stages = {"VERTEX_SHADER"}
    /\ merged["fwd"].tag = "ok"
    /\ merged["fwd"].state.stages = {"FRAGMENT_SHADER", "VERTEX_SHADER"}
    /\ merged["fwd"].state.access = lhs.access \cup rhs.access

\* C3: merge(s1, s2) panics exactly when Layout::merge(s1.layout, s2.layout)
\* is undefined; writes do not make it panic.
C3_MergePanicsIffLayoutsDoNotMerge ==
    \A d \in Dirs :
        Called(merged[d]) =>
            (merged[d] = Panic
                <=> Layout_merge(kind, Self(d).layout, Other(d).layout) = NoLayout)

\* Two writes with one layout: found incompatible, and yet merged.
C3_Witness ==
    /\ is_write(kind, lhs.access)
    /\ is_write(kind, rhs.access)
    /\ compat["fwd"] = Answer(FALSE)
    /\ merged["fwd"].tag = "ok"

\* C4: if compatible(s1, s2) answered true then merge(s1, s2) does not panic
\* and returns a state.
C4_CompatibleImpliesMergeable ==
    \A d \in Dirs :
        (compat[d] = Answer(TRUE) /\ Called(merged[d]))
            => (merged[d].tag = "ok" /\ merged[d].state \in States(kind))

\* A compatible pair with different layouts, merged.
C4_Witness ==
    /\ kind = "Image"
    /\ lhs.layout = "General"
    /\ rhs.layout = "Undefined"
    /\ compat["fwd"] = Answer(TRUE)
    /\ merged["fwd"].tag = "ok"

\* C6: compatible is symmetric: compatible(s1, s2) = compatible(s2, s1).
C6_CompatibleSymmetric ==
    (Called(compat["fwd"]) /\ Called(compat["rev"]))
        => compat["fwd"] = compat["rev"]

\* A writer and a reader asked in both orders: incompatible both times.
C6_Witness ==
    /\ is_write(kind, lhs.access)
    /\ ~is_write(kind, rhs.access)
    /\ compat["fwd"] = Answer(FALSE)
    /\ compat["rev"] = Answer(FALSE)

\* C7: an image state with the undefined layout and a non-write access is
\* compatible with every read-only image state whatever its layout, and
\* merging the two, in either argument order, returns a state with the other
\* state's layout.
C7_UndefinedLayoutAbsorbs ==
    (/\ kind = "Image"
     /\ lhs.layout = "Undefined"
     /\ ~is_write(kind, lhs.access)
     /\ ~is_write(kind, rhs.access))
    => \A d \in Dirs :
        /\ compat[d] \in {NoCall, Answer(TRUE)}
        /\ Called(merged[d]) =>
            (merged[d].tag = "ok" /\ merged[d].state.layout = rhs.layout)

\* The undefined layout met a shader-read-only reader, in both orders.
C7_Witness ==
    /\ kind = "Image"
    /\ lhs.layout = "Undefined"
    /\ rhs.layout = "ShaderReadOnlyOptimal"
    /\ rhs.access = {"SHADER_READ"}
    /\ \A d \in Dirs :
        /\ compat[d] = Answer(TRUE)
        /\ merged[d].tag = "ok"
        /\ merged[d].state.layout = "ShaderReadOnlyOptimal"

\* C8: for buffers, merge never panics, and compatible(b1, b2) is true iff
\* neither access is a write.
C8_BufferLayoutNeverBlocks ==
    kind = "Buffer" =>
        \A d \in Dirs :
            /\ merged[d] # Panic
            /\ Called(compat[d]) =>
                compat[d].value =
                    (~is_write(kind, lhs.access) /\ ~is_write(kind, rhs.access))

\* A transfer write and a vertex fetch: merged, and incompatible both ways.
C8_Witness ==
    /\ kind = "Buffer"
    /\ lhs.access = {"TRANSFER_WRITE"}
    /\ rhs.access = {"VERTEX_BUFFER_READ"}
    /\ merged["fwd"].tag = "ok"
    /\ compat["fwd"] = Answer(FALSE)
    /\ compat["rev"] = Answer(FALSE)

\* C9: merge is idempotent: merge(s, s) does not panic and returns s, for
\* reads and writes alike; and a merge of two zero-access states that returns
\* returns a zero-access state.
C9_MergeIdempotent ==
    /\ lhs = rhs =>
        \A d \in Dirs : merged[d] \in {NoCall, Returned(lhs)}
    /\ (lhs.access = {} /\ rhs.access = {}) =>
        \A d \in Dirs :
            merged[d].tag = "ok" => merged[d].state.access = {}

\* A write merged with itself.
C9_Witness ==
    /\ lhs = rhs
    /\ is_write(kind, lhs.access)
    /\ lhs.stages # {}
    /\ merged["fwd"] = Returned(lhs)

-----------------------------------------------------------------------------
(* Properties of SpecFold (a fold of several states).                      *)

\* C5: a fold of the pending states has the same outcome in every order:
\* every order panics, or every order returns the same state.
C5_FoldOrderIndependent ==
    pending # EmptyBag =>
        \A seq \in Orderings(pending) : FoldLeft(kind, seq) = acc

\* Three different image states, the undefined layout among them, folded.
C5_Witness ==
    /\ kind = "Image"
    /\ BagCardinality(pending) >= 3
    /\ Cardinality(BagToSet(pending)) >= 3
    /\ \E s \in BagToSet(pending) : s.layout = "Undefined"
    /\ \E s \in BagToSet(pending) : s.layout = "General"
    /\ \E s \in BagToSet(pending) : is_write(kind, s.access)
    /\ acc.tag = "ok"
    /\ acc.state.stages = PipelineStage

\* The states of a bag are compatible pair by pair (a state that occurs
\* twice is a pair with itself).
PairwiseCompatible(bag) ==
    \A s1, s2 \in BagToSet(bag) :
        (s1 # s2 \/ CopiesIn(s1, bag) >= 2) => State_compatible(kind, s1, s2)

\* A state that could still join a pairwise compatible bag.
CompatibleWithAll(bag, s) ==
    \A p \in BagToSet(bag) :
        State_compatible(kind, p, s) /\ State_compatible(kind, s, p)

\* C10: folding pairwise compatible states never panics, and every merged
\* state, intermediate or final, is not exclusive and is compatible with
\* every state of the sequence, those folded already and those still to come.
C10_CompatibleFoldStaysCompatible ==
    (BagCardinality(pending) >= 2 /\ PairwiseCompatible(pending)) =>
        /\ acc.tag = "ok"
        /\ ~State_exclusive(kind, acc.state)
        /\ \A s \in States(kind) :
            (s \in BagToSet(pending) \/ CompatibleWithAll(pending, s))
                => State_compatible(kind, acc.state, s)

\* Three pairwise compatible image readers with two layouts, folded.
C10_Witness ==
    /\ kind = "Image"
    /\ BagCardinality(pending) >= 3
    /\ Cardinality(BagToSet(pending)) >= 3
    /\ PairwiseCompatible(pending)
    /\ \E s \in BagToSet(pending) : s.layout = "Undefined"
    /\ \E s \in BagToSet(pending) : s.layout = "ShaderReadOnlyOptimal"
    /\ acc.tag = "ok"
    /\ acc.state.access # {}

====
